---- MODULE Spec2Model ----
(***************************************************************************)
(* A model of build.py of flickr-archive: the image map built from the     *)
(* image directory, the per-photo loop that builds the tag / favorite /    *)
(* view / comment indexes, the tag fold and the sorts of run(), and the    *)
(* pagination of the album, tag and leaderboard index pages.               *)
(*                                                                         *)
(* Strings are tuples of one-character strings, so that lower(), the       *)
(* regular expressions and int() are computed character by character.      *)
(***************************************************************************)
EXTENDS Integers, Sequences, FiniteSets, TLC

VARIABLES
    pc,          \* position of the program
    listing,     \* os.listdir("images"), in listing order
    map_i,       \* number of listing entries _create_image_map has processed
    image_map,   \* photo-id -> image file name
    map_cache,   \* TRUE once ./cache/map.json is written
    albums,      \* _get_albums(): the albums of albums.json, sorted by title
    json_files,  \* the per-photo json files, in os.listdir("json") order
    rec_i,       \* number of json files the loop of _create_images_html has read
    tags,        \* tag index: tag name -> list of photo-ids
    favs,        \* favorite index: count -> list of photo-ids
    views,       \* view index
    comments,    \* comment index
    cache,       \* the cache files: file name -> the index json.dump wrote
    fs,          \* the html tree: path -> content
    writes,      \* the paths _write_html wrote, in order
    log,         \* the log records of interest, in order
    loop         \* the local variables of the pagination loop in progress

vars == <<pc, listing, map_i, image_map, map_cache, albums, json_files, rec_i,
          tags, favs, views, comments, cache, fs, writes, log, loop>>

(***************************************************************************)
(* Bounds of the model.                                                    *)
(***************************************************************************)
MaxFiles == 2        \* image files in the listing
MaxRecords == 2      \* per-photo json files
MaxAlbums == 2       \* albums of albums.json

\* The page sizes of the index pages. build.py sets 200 tags, 100 counts and
\* 100 albums a page; the model scales them down so that full pages, a
\* shorter last page and several pages occur with a few records.
tags_per_page == 2
types_per_page == 2
albums_per_page == 1

(***************************************************************************)
(* Helpers on sequences and dicts. A dict is a function; None of dict.get  *)
(* and of a failed re.search is the empty string.                          *)
(***************************************************************************)
None == <<>>

Range(s) == {s[i] : i \in DOMAIN s}

EmptyDict == [k \in {} |-> None]

\* d[k] = v of a dict
DictSet(d, k, v) == [x \in DOMAIN d \cup {k} |-> IF x = k THEN v ELSE d[x]]

\* d.get(k)
DictGet(d, k) == IF k \in DOMAIN d THEN d[k] ELSE None

\* d.setdefault(k, [])
SetDefault(d, k) == IF k \in DOMAIN d THEN d ELSE DictSet(d, k, <<>>)

\* the sequences over S without repetition, of length at most n
RECURSIVE DistinctSeqs(_, _)
DistinctSeqs(S, n) ==
    IF n = 0 THEN {<<>>}
    ELSE LET shorter == DistinctSeqs(S, n - 1)
         IN  shorter \cup
             {Append(p[1], p[2]) : p \in {q \in shorter \X S : q[2] \notin Range(q[1])}}

\* the orders in which the elements of a finite set may be listed
Perms(S) == {s \in DistinctSeqs(S, Cardinality(S)) : Len(s) = Cardinality(S)}

(***************************************************************************)
(* _create_image_map: the three regular expressions.                       *)
(***************************************************************************)
Digits == {"0", "1", "2", "3", "4", "5", "6", "7", "8", "9"}

\* length of the longest run of digits of f that starts at position i
DigitRun(f, i) ==
    LET ok == {n \in 0..(Len(f) - i + 1) : \A m \in i..(i + n - 1) : f[m] \in Digits}
    IN  CHOOSE n \in ok : \A m \in ok : m <= n

CharAt(f, i) == IF i \in DOMAIN f THEN f[i] ELSE ""

\* re.search("^(\d+)_", image).group(1), or None
RegexA(f) ==
    LET n == DigitRun(f, 1)
    IN  IF n >= 1 /\ CharAt(f, n + 1) = "_" THEN SubSeq(f, 1, n) ELSE None

\* the positions at which "_(\d+)" followed by the characters tail matches
UnderscoreIdAt(f, tail) ==
    {i \in DOMAIN f :
        /\ f[i] = "_"
        /\ DigitRun(f, i + 1) >= 1
        /\ \A j \in DOMAIN tail : CharAt(f, i + DigitRun(f, i + 1) + j) = tail[j]}

\* group(1) of the leftmost match of "_(\d+)" followed by tail, or None
UnderscoreId(f, tail) ==
    LET at == UnderscoreIdAt(f, tail)
    IN  IF at = {} THEN None
        ELSE LET i == CHOOSE x \in at : \A y \in at : x <= y
             IN  SubSeq(f, i + 1, i + DigitRun(f, i + 1))

\* re.search("_(\d+)_o", image).group(1), or None
RegexB(f) == UnderscoreId(f, <<"_", "o">>)

\* re.search("_(\d+)\.", image).group(1), or None
RegexC(f) == UnderscoreId(f, <<".">>)

\* a map that keeps the first file name of an id
MapPutFirst(map, id, image) ==
    IF id = None \/ id \in DOMAIN map THEN map ELSE DictSet(map, id, image)

\* map[id] = image when the pattern matched
MapPut(map, id, image) == IF id = None THEN map ELSE DictSet(map, id, image)

\* the body of the loop over the images, for one image
AddImage(map, image) ==
    MapPut(MapPut(MapPut(map, RegexA(image), image), RegexB(image), image),
           RegexC(image), image)

\* found of the loop body
Found(image) ==
    RegexA(image) # None \/ RegexB(image) # None \/ RegexC(image) # None

\* the image file names the model draws the directory listing from
Filenames ==
    { <<"1", "_", "a", ".", "j">>,                 \* 1_a.j       leading id
      <<"a", "_", "1", "_", "o", ".", "j">>,       \* a_1_o.j     id before _o
      <<"b", "_", "1", "_", "o", ".", "j">>,       \* b_1_o.j     the same id again
      <<"a", "_", "2", ".", "j">>,                 \* a_2.j       id before the extension
      <<"1", "_", "a", "_", "2", "_", "o", ".", "j">>,  \* 1_a_2_o.j  leading id and _o id
      <<"2", "_", "1", ".", "j">>,                 \* 2_1.j       leading id and extension id
      <<"1", "2", "_", "a", ".", "j">>,            \* 12_a.j      two-digit leading id
      <<"a", ".", "j">> }                          \* a.j         no id

Listings == DistinctSeqs(Filenames, MaxFiles)

(***************************************************************************)
(* Strings: lower(), replace(), str() and int().                           *)
(***************************************************************************)
\* a conversion that changes the case of a letter either way
SwapCaseChar(c) ==
    CASE c = "A" -> "a" [] c = "B" -> "b" [] c = "C" -> "c"
      [] c = "a" -> "A" [] c = "b" -> "B" [] c = "c" -> "C" [] OTHER -> c

LowerChar(c) ==
    CASE c = "A" -> "a" [] c = "B" -> "b" [] c = "C" -> "c" [] OTHER -> c

\* tag.lower()
Lower(s) == [i \in DOMAIN s |-> LowerChar(s[i])]

\* s.replace(a, b) for a one-character a and b
ReplaceChar(s, a, b) == [i \in DOMAIN s |-> IF s[i] = a THEN b ELSE s[i]]

DigitChar(n) ==
    CASE n = 0 -> "0" [] n = 1 -> "1" [] n = 2 -> "2" [] n = 3 -> "3" [] n = 4 -> "4"
      [] n = 5 -> "5" [] n = 6 -> "6" [] n = 7 -> "7" [] n = 8 -> "8" [] n = 9 -> "9"

DigitVal(c) == CHOOSE n \in 0..9 : DigitChar(n) = c

\* str(n) of a non-negative integer
RECURSIVE Str(_)
Str(n) == IF n < 10 THEN <<DigitChar(n)>> ELSE Append(Str(n \div 10), DigitChar(n % 10))

\* int(s) of a string of digits
RECURSIVE ParseInt(_)
ParseInt(s) ==
    IF Len(s) = 0 THEN 0
    ELSE 10 * ParseInt(SubSeq(s, 1, Len(s) - 1)) + DigitVal(s[Len(s)])

(***************************************************************************)
(* The per-photo json records. A count is the json value it was exported   *)
(* as: a string of digits (kind "str") or a number (kind "int", held by    *)
(* its decimal digits). A record that json.load rejects has parses FALSE;  *)
(* file is the photo-id in the name of the json file.                      *)
(***************************************************************************)
PageFields ==
    {"albums", "license", "groups", "description", "photopage", "comments", "name",
     "date_taken", "people", "rotation", "date_imported", "tagging_permissions",
     "exif", "privacy"}

IndexFields == {"tags", "id", "count_faves", "count_views", "count_comments"}

AllFields == IndexFields \cup PageFields \cup {"geo"}

StrCount(n) == [kind |-> "str", n |-> 0, digits |-> Str(n)]
IntCount(n) == [kind |-> "int", n |-> n, digits |-> <<>>]

Record(id, tagnames, f, v, c) ==
    [file |-> id, parses |-> TRUE,
     data |-> [fld \in AllFields |->
                 CASE fld = "id" -> id
                   [] fld = "tags" -> tagnames
                   [] fld = "count_faves" -> f
                   [] fld = "count_views" -> v
                   [] fld = "count_comments" -> c
                   [] OTHER -> <<"x">>]]

\* the record without one of its fields
Drop(rec, fld) ==
    [rec EXCEPT !.data = [x \in DOMAIN rec.data \ {fld} |-> rec.data[x]]]

\* a json file json.load raises ValueError for
Unparseable(id) == [file |-> id, parses |-> FALSE, data |-> EmptyDict]

(***************************************************************************)
(* _write_html                                                             *)
(***************************************************************************)
\* a _write_html that ignores overwrite
WritesAlways(files, path, overwrite) == TRUE

\* whether _write_html writes the file
Writes(files, path, overwrite) == ~(path \in DOMAIN files /\ ~overwrite)

\* the html tree after _write_html(html, path, overwrite)
_write_html(files, html, path, overwrite) ==
    IF Writes(files, path, overwrite) THEN DictSet(files, path, html) ELSE files

\* the paths written so far, after _write_html(html, path, overwrite)
WriteLog(files, written, path, overwrite) ==
    IF Writes(files, path, overwrite) THEN Append(written, path) ELSE written

(***************************************************************************)
(* _create_images_html: the body of the loop, for one json file.           *)
(***************************************************************************)
\* an append that leaves out a photo whose page is already there
AppendUnlessPageExists(d, k, id) ==
    IF <<"html/images/", id>> \in DOMAIN fs THEN d ELSE DictSet(d, k, Append(d[k], id))

\* d[k].append(id)
AppendTo(d, k, id) == DictSet(d, k, Append(d[k], id))

\* the loop over json_data["tags"]: raised is TRUE when json_data["id"]
\* raises KeyError, after the setdefault of the tag it was reached for
RECURSIVE TagLoop(_, _, _)
TagLoop(d, names, data) ==
    IF names = <<>> THEN [d |-> d, raised |-> FALSE]
    ELSE LET d1 == SetDefault(d, Head(names))
         IN  IF "id" \notin DOMAIN data THEN [d |-> d1, raised |-> TRUE]
             ELSE TagLoop(AppendTo(d1, Head(names), data["id"]), Tail(names), data)

\* lines 401-410: the four indexes after the record, and whether an
\* exception was raised on the way (the statements before it have run)
IndexRecord(idx, rec) ==
    LET data == rec.data
        raise(i) == [i EXCEPT !.raised = TRUE]
    IN  IF ~rec.parses THEN raise(idx)
        ELSE IF "tags" \notin DOMAIN data THEN raise(idx)
        ELSE LET t == TagLoop(idx.tags, data["tags"], data)
                 i1 == [idx EXCEPT !.tags = t.d]
             IN  IF t.raised THEN raise(i1)
                 ELSE IF "count_faves" \notin DOMAIN data THEN raise(i1)
                 ELSE LET i2 == [i1 EXCEPT !.favs = SetDefault(@, data["count_faves"])]
                      IN  IF "count_views" \notin DOMAIN data THEN raise(i2)
                 ELSE LET i3 == [i2 EXCEPT !.views = SetDefault(@, data["count_views"])]
                      IN  IF "count_comments" \notin DOMAIN data THEN raise(i3)
                 ELSE LET i4 == [i3 EXCEPT
                                   !.comments = SetDefault(@, data["count_comments"])]
                      IN  IF "id" \notin DOMAIN data THEN raise(i4)
                 ELSE [i4 EXCEPT
                         !.favs = AppendTo(@, data["count_faves"], data["id"]),
                         !.views = AppendTo(@, data["count_views"], data["id"]),
                         !.comments = AppendTo(@, data["count_comments"], data["id"])]

\* the link target _get_tags gives a tag of a photo page
TagLink(name) == ReplaceChar(ReplaceChar(name, "/", "-"), " ", "-")

\* _create_image_html raises KeyError when a field it subscripts is missing
\* (geo is read with .get and may be missing)
ImageHtmlRaises(data) == (PageFields \cup IndexFields) \ DOMAIN data # {}

\* the photo page of a record
_create_image_html(data, map) ==
    [kind |-> "image",
     id |-> data["id"],
     image_src |-> DictGet(map, data["id"]),
     tags |-> [i \in DOMAIN data["tags"] |-> TagLink(data["tags"][i])]]

ImagePath(id) == <<"html/images/", id>>

(***************************************************************************)
(* _combine_tags, _sort_by_value_len, _key_to_int and the sorts of run().  *)
(* A dict is iterated in an order the caller does not control: the         *)
(* operators take that order (a listing of the keys) as an argument, and   *)
(* list(set(x)) lists the elements of x in the order ids lists them.       *)
(***************************************************************************)
\* list(set(xs))
ListOfSet(xs, ids) ==
    LET In(x) == x \in Range(xs) IN SelectSeq(ids, In)

\* a fold that keeps the images of the last case variant only
CombineOneOverwrite(clean, tag, images, ids) == DictSet(clean, Lower(tag), images)

\* the body of the loop of _combine_tags for one key
CombineOne(clean, tag, images, ids) ==
    IF Lower(tag) \notin DOMAIN clean
    THEN DictSet(clean, Lower(tag), images)
    ELSE DictSet(clean, Lower(tag), ListOfSet(clean[Lower(tag)] \o images, ids))

RECURSIVE CombineLoop(_, _, _, _)
CombineLoop(clean, d, order, ids) ==
    IF order = <<>> THEN clean
    ELSE CombineLoop(CombineOne(clean, Head(order), d[Head(order)], ids),
                     d, Tail(order), ids)

\* _combine_tags(d), d iterated in the order given
_combine_tags(d, order, ids) == CombineLoop(EmptyDict, d, order, ids)

\* the numbers of S, greatest first
RECURSIVE Descending(_)
Descending(S) ==
    IF S = {} THEN <<>>
    ELSE LET m == CHOOSE x \in S : \A y \in S : y <= x
         IN  <<m>> \o Descending(S \ {m})

\* to_sort[n] of _sort_by_value_len: the tags with n images, in iteration order
SizeGroup(d, order, n) ==
    LET Has(k) == Len(d[k]) = n
        keys == SelectSeq(order, Has)
    IN  [i \in DOMAIN keys |-> [name |-> keys[i], images |-> d[keys[i]]]]

\* the numbers of S, least first
RECURSIVE Ascending(_)
Ascending(S) ==
    IF S = {} THEN <<>>
    ELSE LET m == CHOOSE x \in S : \A y \in S : x <= y
         IN  <<m>> \o Ascending(S \ {m})

\* a sort by size without reverse=True
_sort_by_value_len_ascending(d, order) ==
    LET sizes == Ascending({Len(d[k]) : k \in DOMAIN d})
    IN  [i \in DOMAIN sizes |-> [k |-> sizes[i], v |-> SizeGroup(d, order, sizes[i])]]

\* _sort_by_value_len(d): an OrderedDict, held as the sequence of its items
_sort_by_value_len(d, order) ==
    LET sizes == Descending({Len(d[k]) : k \in DOMAIN d})
    IN  [i \in DOMAIN sizes |-> [k |-> sizes[i], v |-> SizeGroup(d, order, sizes[i])]]

\* int(k) of a count key
KeyInt(k) == IF k.kind = "int" THEN k.n ELSE ParseInt(k.digits)

RECURSIVE KeyToIntLoop(_, _, _)
KeyToIntLoop(clean, d, order) ==
    IF order = <<>> THEN clean
    ELSE KeyToIntLoop(DictSet(clean, KeyInt(Head(order)), d[Head(order)]),
                      d, Tail(order))

\* _key_to_int(d), d iterated in the order given
_key_to_int(d, order) == KeyToIntLoop(EmptyDict, d, order)

\* a sort by key without reversed()
SortedByKeyAscending(d) ==
    LET keys == Ascending(DOMAIN d)
    IN  [i \in DOMAIN keys |-> [k |-> keys[i], v |-> d[keys[i]]]]

\* collections.OrderedDict(reversed(sorted(d.items()))), as the sequence of its items
SortedByKeyDesc(d) ==
    LET keys == Descending(DOMAIN d)
    IN  [i \in DOMAIN keys |-> [k |-> keys[i], v |-> d[keys[i]]]]

\* the tags of the sorted tag index in the order the two nested loops of
\* _create_tags_html visit them
RECURSIVE FlatTags(_)
FlatTags(sorted) ==
    IF sorted = <<>> THEN <<>> ELSE Head(sorted).v \o FlatTags(Tail(sorted))

\* _get_num_tags
RECURSIVE _get_num_tags(_)
_get_num_tags(sorted) ==
    IF sorted = <<>> THEN 0 ELSE Len(Head(sorted).v) + _get_num_tags(Tail(sorted))

\* int(math.ceil(a / b)) under true division
CeilDiv(a, b) == (a + b - 1) \div b

(***************************************************************************)
(* Rendering: the image tables and the pages, as far as the index entries, *)
(* the links and the page numbers go (the markup is left out).             *)
(***************************************************************************)
PhotoTableOver == 30

Tok(t) == [tok |-> t, id |-> None, url |-> None]

\* the loop of _get_images_table: the table built and the ids it logged as
\* not found in the image map
RECURSIVE ImagesTableLoop(_, _, _, _, _)
ImagesTableLoop(ids, map, count, table, errors) ==
    IF ids = <<>> THEN [table |-> Append(table, Tok("/table")), errors |-> errors]
    ELSE LET id == Head(ids)
             opened == IF count = 0 THEN Append(table, Tok("tr")) ELSE table
         IN  IF id \notin DOMAIN map
             THEN ImagesTableLoop(Tail(ids), map, count, opened, Append(errors, id))
             ELSE LET cell == Append(opened, [tok |-> "td", id |-> id, url |-> map[id]])
                  IN  IF count = 4
                      THEN ImagesTableLoop(Tail(ids), map, 1,
                                           Append(cell, Tok("/tr")), errors)
                      ELSE ImagesTableLoop(Tail(ids), map, count + 1, cell, errors)

\* _get_images_table
_get_images_table(ids, map) == ImagesTableLoop(ids, map, 1, <<Tok("table")>>, <<>>)

\* the images of a tag, album or count page: a table over 30 photos,
\* stacked images otherwise
PageImages(ids, map) ==
    IF Len(ids) > PhotoTableOver
    THEN [layout |-> "table", body |-> _get_images_table(ids, map).table]
    ELSE [layout |-> "stacked",
          body |-> [i \in DOMAIN ids |->
                      [tok |-> "img", id |-> ids[i], url |-> DictGet(map, ids[i])]]]

\* the errors _get_images_table logs for a page
PageImageErrors(ids, map) ==
    IF Len(ids) > PhotoTableOver
    THEN LET e == _get_images_table(ids, map).errors
         IN  [i \in DOMAIN e |-> [level |-> "error", msg |-> "not in image map", what |-> e[i]]]
    ELSE <<>>

\* s without the character a: s.replace(a, "")
RemoveChar(s, a) == LET Keep(c) == c # a IN SelectSeq(s, Keep)

\* _id_from_url: url.split("/")[-1]
_id_from_url(url) ==
    LET slashes == {i \in DOMAIN url : url[i] = "/"}
        last == IF slashes = {} THEN 0 ELSE CHOOSE i \in slashes : \A j \in slashes : j <= i
    IN  SubSeq(url, last + 1, Len(url))

\* ---- albums
AlbumsIndexPath(n) == <<"html/albums-", Str(n)>>
AlbumPath(id) == <<"html/albums/", id>>

\* _get_album_table: a missing cover photo is logged and rendered empty
_get_album_table(page, map) ==
    [i \in DOMAIN page |->
        [id |-> page[i].id, title |-> page[i].title,
         link |-> DictGet(map, _id_from_url(page[i].cover_photo)),
         num_photos |-> page[i].photo_count]]

AlbumTableErrors(page, map) ==
    LET Miss(a) == _id_from_url(a.cover_photo) \notin DOMAIN map
        missed == SelectSeq(page, Miss)
    IN  [i \in DOMAIN missed |->
           [level |-> "error", msg |-> "no cover photo for album",
            what |-> _id_from_url(missed[i].cover_photo)]]

AlbumsPageHtml(page, page_num, num_pages, map) ==
    [kind |-> "albums-index", page_num |-> page_num,
     pages |-> [x \in 1..num_pages |-> x],
     entries |-> _get_album_table(page, map)]

\* _create_album_html
_create_album_html(album, page_num, map) ==
    [kind |-> "album", title |-> album.title, page_num |-> page_num,
     photo_count |-> album.photo_count, images |-> PageImages(album.photos, map)]

\* the album pages of one index page, written in order
RECURSIVE WriteAlbums(_, _, _, _)
WriteAlbums(st, page, page_num, map) ==
    IF page = <<>> THEN st
    ELSE LET a == Head(page)
         IN  WriteAlbums(
                [fs |-> _write_html(st.fs, _create_album_html(a, page_num, map), AlbumPath(a.id), TRUE),
                 writes |-> WriteLog(st.fs, st.writes, AlbumPath(a.id), TRUE),
                 log |-> st.log \o PageImageErrors(a.photos, map)],
                Tail(page), page_num, map)

\* ---- tags
TagsIndexPath(n) == <<"html/tags-", Str(n)>>
TagPath(name) == <<"html/tags/", ReplaceChar(RemoveChar(name, "/"), " ", "-")>>

\* _get_tag_table raises (KeyError) when the first image of a tag of the
\* page is not in the image map
TagTableRaises(page, map) ==
    \E i \in DOMAIN page : Len(page[i].images) = 0 \/ page[i].images[1] \notin DOMAIN map

_get_tag_table(page, map) ==
    [i \in DOMAIN page |->
        [tag |-> TagLink(page[i].name), tag_clean |-> page[i].name,
         link |-> map[page[i].images[1]], num_photos |-> Len(page[i].images)]]

\* the page numbers the navigation bar of a tags index page links to
TagsNav(num_pages) == [x \in 1..(num_pages - 1) |-> x]

\* _create_tags_page
_create_tags_page(page, page_num, num_pages, map) ==
    [kind |-> "tags-index", page_num |-> page_num,
     pages |-> TagsNav(num_pages), entries |-> _get_tag_table(page, map)]

\* _create_tag_html
_create_tag_html(tag, page_num, map) ==
    [kind |-> "tag", title |-> tag.name, page_num |-> page_num,
     photo_count |-> Len(tag.images), images |-> PageImages(tag.images, map)]

\* ---- favorites, views, comments
Types == {"fav", "view", "comment"}

TypesIndexPath(type, n) == <<"html/" \o type \o "s-", Str(n)>>
TypePath(type, num) == <<"html/" \o type \o "s/", Str(num)>>

\* _get_table raises (KeyError) when the first image of a count of the
\* page is not in the image map
TableRaises(page, map) ==
    \E i \in DOMAIN page : Len(page[i].images) = 0 \/ page[i].images[1] \notin DOMAIN map

_get_table(page, map) ==
    [i \in DOMAIN page |->
        [num |-> page[i].num, link |-> map[page[i].images[1]],
         num_photos |-> Len(page[i].images)]]

\* _create_types_page
_create_types_page(type, page, page_num, num_pages, map) ==
    [kind |-> type \o "s-index", page_num |-> page_num,
     pages |-> [x \in 1..num_pages |-> x], entries |-> _get_table(page, map)]

\* _create_type_html
_create_type_html(type, num, images, page_num, map) ==
    [kind |-> type, title |-> num, page_num |-> page_num,
     photo_count |-> Len(images), images |-> PageImages(images, map)]

(***************************************************************************)
(* The program: run() and the loops it calls, one action per loop          *)
(* iteration. Thumbnails, album symlinks and the profile page are left     *)
(* out: they read the image map and write nothing the index pages use.     *)
(***************************************************************************)
NoLoop == [i |-> 0, cur_page_num |-> 0, count |-> 0, cur_page |-> <<>>, num_pages |-> 0]

Logged(level, msg, what) == [level |-> level, msg |-> msg, what |-> what]

\* an exception that leaves run(): the handler of __main__ logs it, with the
\* traceback that shows which index ("tag", "fav", "view", "comment") was
\* being written, and raises it again
Crash(where) ==
    /\ pc' = "aborted"
    /\ log' = Append(log, Logged("error", "Something unexpected happened", where))

\* ---- _create_image_map (lines 250-278)
MapStep ==
    /\ pc = "map"
    /\ map_i < Len(listing)
    /\ LET image == listing[map_i + 1]
       IN  /\ image_map' = AddImage(image_map, image)
           /\ log' = IF Found(image) THEN log
                     ELSE Append(log, Logged("debug", "Can't get id", image))
    /\ map_i' = map_i + 1
    /\ UNCHANGED <<pc, listing, map_cache, albums, json_files, rec_i, tags, favs,
                   views, comments, cache, fs, writes, loop>>

MapReturn ==
    /\ pc = "map"
    /\ map_i = Len(listing)
    /\ map_cache' = TRUE
    /\ pc' = "albums_begin"
    /\ UNCHANGED <<listing, map_i, image_map, albums, json_files, rec_i, tags, favs,
                   views, comments, cache, fs, writes, log, loop>>

\* ---- _create_albums_html (lines 814-866)
AlbumsBegin ==
    /\ pc = "albums_begin"
    /\ loop' = [NoLoop EXCEPT !.num_pages = CeilDiv(Len(albums), albums_per_page)]
    /\ pc' = "albums"
    /\ UNCHANGED <<listing, map_i, image_map, map_cache, albums, json_files, rec_i,
                   tags, favs, views, comments, cache, fs, writes, log>>

\* albums[albums_per_page * page_num:albums_per_page * (page_num + 1)]
AlbumsOnPage(all, page_num) ==
    LET last == IF albums_per_page * (page_num + 1) < Len(all)
                THEN albums_per_page * (page_num + 1) ELSE Len(all)
    IN  SubSeq(all, albums_per_page * page_num + 1, last)

\* one iteration of the loop over range(num_pages); loop.i is page_num
AlbumsPage ==
    /\ pc = "albums"
    /\ loop.i < loop.num_pages
    /\ LET page == AlbumsOnPage(albums, loop.i)
           path == AlbumsIndexPath(loop.i + 1)
           html == AlbumsPageHtml(page, loop.i + 1, loop.num_pages, image_map)
           st == WriteAlbums(
                    [fs |-> _write_html(fs, html, path, TRUE),
                     writes |-> WriteLog(fs, writes, path, TRUE),
                     log |-> log \o AlbumTableErrors(page, image_map)],
                    page, loop.i + 1, image_map)
       IN  /\ fs' = st.fs
           /\ writes' = st.writes
           /\ log' = st.log
    /\ loop' = [loop EXCEPT !.i = @ + 1]
    /\ UNCHANGED <<pc, listing, map_i, image_map, map_cache, albums, json_files,
                   rec_i, tags, favs, views, comments, cache>>

AlbumsReturn ==
    /\ pc = "albums"
    /\ loop.i = loop.num_pages
    /\ loop' = NoLoop
    /\ pc' = "images"
    /\ UNCHANGED <<listing, map_i, image_map, map_cache, albums, json_files, rec_i,
                   tags, favs, views, comments, cache, fs, writes, log>>

\* ---- _create_images_html (lines 396-437), called with overwrite=False
images_overwrite == FALSE

\* an except clause that logs the exception and goes on with the next file
ExceptPcContinue == "images"

\* where the except clause of the loop body leaves the program: exit()
ExceptPc == "aborted"

\* one iteration of the loop over json_files: any exception of the body is
\* logged and followed by exit()
ImagesStep ==
    /\ pc = "images"
    /\ rec_i < Len(json_files)
    /\ LET rec == json_files[rec_i + 1]
           idx == IndexRecord([tags |-> tags, favs |-> favs, views |-> views,
                               comments |-> comments, raised |-> FALSE], rec)
           raised == idx.raised \/ ImageHtmlRaises(rec.data)
       IN  /\ tags' = idx.tags
           /\ favs' = idx.favs
           /\ views' = idx.views
           /\ comments' = idx.comments
           /\ IF raised
              THEN /\ log' = Append(log, Logged("exception", "exit", "_create_images_html"))
                   /\ pc' = ExceptPc
                   /\ UNCHANGED <<fs, writes>>
              ELSE /\ fs' = _write_html(fs, _create_image_html(rec.data, image_map),
                                      ImagePath(rec.data["id"]), images_overwrite)
                   /\ writes' = WriteLog(fs, writes, ImagePath(rec.data["id"]),
                                         images_overwrite)
                   /\ UNCHANGED <<pc, log>>
    /\ rec_i' = rec_i + 1
    /\ UNCHANGED <<listing, map_i, image_map, map_cache, albums, json_files, cache, loop>>

\* a return that does not wait for the end of the loop over the json files
ImagesReturnEarly ==
    /\ pc = "images"
    /\ rec_i <= Len(json_files)
    /\ cache' = [f \in {"tags.json", "favs.json", "views.json", "comments.json"} |->
                    CASE f = "tags.json" -> tags [] f = "favs.json" -> favs
                      [] f = "views.json" -> views [] f = "comments.json" -> comments]
    /\ pc' = "combine"
    /\ UNCHANGED <<listing, map_i, image_map, map_cache, albums, json_files, rec_i,
                   tags, favs, views, comments, fs, writes, log, loop>>

\* the four cache files are written and the indexes returned
ImagesReturn ==
    /\ pc = "images"
    /\ rec_i = Len(json_files)
    /\ cache' = [f \in {"tags.json", "favs.json", "views.json", "comments.json"} |->
                    CASE f = "tags.json" -> tags [] f = "favs.json" -> favs
                      [] f = "views.json" -> views [] f = "comments.json" -> comments]
    /\ pc' = "combine"
    /\ UNCHANGED <<listing, map_i, image_map, map_cache, albums, json_files, rec_i,
                   tags, favs, views, comments, fs, writes, log, loop>>

\* the photo-ids of a dict of lists
IdsOf(d) == UNION {Range(d[k]) : k \in DOMAIN d}

\* ---- run(), lines 1153-1163
RunCombineTags ==
    /\ pc = "combine"
    /\ \E order \in Perms(DOMAIN tags), ids \in Perms(IdsOf(tags)) :
          tags' = _combine_tags(tags, order, ids)
    /\ pc' = "sort_tags"
    /\ UNCHANGED <<listing, map_i, image_map, map_cache, albums, json_files, rec_i,
                   favs, views, comments, cache, fs, writes, log, loop>>

RunSortTags ==
    /\ pc = "sort_tags"
    /\ \E order \in Perms(DOMAIN tags) : tags' = _sort_by_value_len(tags, order)
    /\ pc' = "sort_counts"
    /\ UNCHANGED <<listing, map_i, image_map, map_cache, albums, json_files, rec_i,
                   favs, views, comments, cache, fs, writes, log, loop>>

\* _key_to_int and the descending sort, for favs, views and comments
RunSortCounts ==
    /\ pc = "sort_counts"
    /\ \E of \in Perms(DOMAIN favs), ov \in Perms(DOMAIN views),
          oc \in Perms(DOMAIN comments) :
          /\ favs' = SortedByKeyDesc(_key_to_int(favs, of))
          /\ views' = SortedByKeyDesc(_key_to_int(views, ov))
          /\ comments' = SortedByKeyDesc(_key_to_int(comments, oc))
    /\ pc' = "tags_begin"
    /\ UNCHANGED <<listing, map_i, image_map, map_cache, albums, json_files, rec_i,
                   tags, cache, fs, writes, log, loop>>

\* ---- _create_tags_html (lines 723-746), called with overwrite=True
TagsBegin ==
    /\ pc = "tags_begin"
    /\ loop' = [NoLoop EXCEPT !.cur_page_num = 1,
                              !.num_pages = CeilDiv(_get_num_tags(tags), tags_per_page)]
    /\ pc' = "tags"
    /\ UNCHANGED <<listing, map_i, image_map, map_cache, albums, json_files, rec_i,
                   tags, favs, views, comments, cache, fs, writes, log>>

\* one iteration of the inner loop: the tag joins the current page, a full
\* page is written, and the page of the tag is written
TagsStep ==
    /\ pc = "tags"
    /\ loop.i < Len(FlatTags(tags))
    /\ LET tag == FlatTags(tags)[loop.i + 1]
           page == Append(loop.cur_page, tag)
           full == loop.count + 1 = tags_per_page
           page_num == IF full THEN loop.cur_page_num + 1 ELSE loop.cur_page_num
           index_path == TagsIndexPath(loop.cur_page_num)
           fs1 == IF full
                  THEN _write_html(fs, _create_tags_page(page, loop.cur_page_num,
                                                  loop.num_pages, image_map),
                                 index_path, TRUE)
                  ELSE fs
           writes1 == IF full THEN WriteLog(fs, writes, index_path, TRUE) ELSE writes
       IN  IF full /\ TagTableRaises(page, image_map)
           THEN /\ Crash("tag")
                /\ UNCHANGED <<fs, writes, loop>>
           ELSE /\ fs' = _write_html(fs1, _create_tag_html(tag, page_num, image_map),
                                   TagPath(tag.name), TRUE)
                /\ writes' = WriteLog(fs1, writes1, TagPath(tag.name), TRUE)
                /\ log' = log \o PageImageErrors(tag.images, image_map)
                /\ loop' = [loop EXCEPT !.i = @ + 1,
                                        !.count = IF full THEN 0 ELSE @ + 1,
                                        !.cur_page = IF full THEN <<>> ELSE page,
                                        !.cur_page_num = page_num]
                /\ UNCHANGED pc
    /\ UNCHANGED <<listing, map_i, image_map, map_cache, albums, json_files, rec_i,
                   tags, favs, views, comments, cache>>

\* after the loops: the tags left over make the last page
TagsReturn ==
    /\ pc = "tags"
    /\ loop.i = Len(FlatTags(tags))
    /\ IF Len(loop.cur_page) > 0 /\ TagTableRaises(loop.cur_page, image_map)
       THEN /\ Crash("tag")
            /\ UNCHANGED <<fs, writes, loop>>
       ELSE /\ fs' = IF Len(loop.cur_page) > 0
                     THEN _write_html(fs, _create_tags_page(loop.cur_page, loop.cur_page_num,
                                                     loop.num_pages, image_map),
                                    TagsIndexPath(loop.cur_page_num), TRUE)
                     ELSE fs
            /\ writes' = IF Len(loop.cur_page) > 0
                         THEN WriteLog(fs, writes, TagsIndexPath(loop.cur_page_num), TRUE)
                         ELSE writes
            /\ loop' = NoLoop
            /\ pc' = "fav_begin"
            /\ UNCHANGED log
    /\ UNCHANGED <<listing, map_i, image_map, map_cache, albums, json_files, rec_i,
                   tags, favs, views, comments, cache>>

\* ---- _create_types_html (lines 1102-1124), called with overwrite=True
TypeIndex(type) ==
    CASE type = "fav" -> favs [] type = "view" -> views [] type = "comment" -> comments

\* what run() does after _create_types_html(type, ...)
AfterType(type) ==
    CASE type = "fav" -> "view_begin" [] type = "view" -> "comment_begin"
      [] type = "comment" -> "done"

TypesBegin(type) ==
    /\ pc = type \o "_begin"
    /\ loop' = [NoLoop EXCEPT !.cur_page_num = 1,
                              !.num_pages = CeilDiv(Len(TypeIndex(type)), types_per_page)]
    /\ pc' = type
    /\ UNCHANGED <<listing, map_i, image_map, map_cache, albums, json_files, rec_i,
                   tags, favs, views, comments, cache, fs, writes, log>>

\* one iteration of the loop over types.items()
TypesStep(type) ==
    /\ pc = type
    /\ loop.i < Len(TypeIndex(type))
    /\ LET item == TypeIndex(type)[loop.i + 1]
           page == Append(loop.cur_page, [num |-> item.k, images |-> item.v])
           full == loop.count + 1 = types_per_page
           page_num == IF full THEN loop.cur_page_num + 1 ELSE loop.cur_page_num
           index_path == TypesIndexPath(type, loop.cur_page_num)
           fs1 == IF full
                  THEN _write_html(fs, _create_types_page(type, page, loop.cur_page_num,
                                                   loop.num_pages, image_map),
                                 index_path, TRUE)
                  ELSE fs
           writes1 == IF full THEN WriteLog(fs, writes, index_path, TRUE) ELSE writes
       IN  IF full /\ TableRaises(page, image_map)
           THEN /\ Crash(type)
                /\ UNCHANGED <<fs, writes, loop>>
           ELSE /\ fs' = _write_html(fs1, _create_type_html(type, item.k, item.v, page_num, image_map),
                                   TypePath(type, item.k), TRUE)
                /\ writes' = WriteLog(fs1, writes1, TypePath(type, item.k), TRUE)
                /\ log' = log \o PageImageErrors(item.v, image_map)
                /\ loop' = [loop EXCEPT !.i = @ + 1,
                                        !.count = IF full THEN 0 ELSE @ + 1,
                                        !.cur_page = IF full THEN <<>> ELSE page,
                                        !.cur_page_num = page_num]
                /\ UNCHANGED pc
    /\ UNCHANGED <<listing, map_i, image_map, map_cache, albums, json_files, rec_i,
                   tags, favs, views, comments, cache>>

TypesReturn(type) ==
    /\ pc = type
    /\ loop.i = Len(TypeIndex(type))
    /\ IF Len(loop.cur_page) > 0 /\ TableRaises(loop.cur_page, image_map)
       THEN /\ Crash(type)
            /\ UNCHANGED <<fs, writes, loop>>
       ELSE /\ fs' = IF Len(loop.cur_page) > 0
                     THEN _write_html(fs, _create_types_page(type, loop.cur_page, loop.cur_page_num,
                                                      loop.num_pages, image_map),
                                    TypesIndexPath(type, loop.cur_page_num), TRUE)
                     ELSE fs
            /\ writes' = IF Len(loop.cur_page) > 0
                         THEN WriteLog(fs, writes,
                                       TypesIndexPath(type, loop.cur_page_num), TRUE)
                         ELSE writes
            /\ loop' = NoLoop
            /\ pc' = AfterType(type)
            /\ UNCHANGED log
    /\ UNCHANGED <<listing, map_i, image_map, map_cache, albums, json_files, rec_i,
                   tags, favs, views, comments, cache>>

FavsBegin == TypesBegin("fav")
FavsStep == TypesStep("fav")
FavsReturn == TypesReturn("fav")
ViewsBegin == TypesBegin("view")
ViewsStep == TypesStep("view")
ViewsReturn == TypesReturn("view")
CommentsBegin == TypesBegin("comment")
CommentsStep == TypesStep("comment")
CommentsReturn == TypesReturn("comment")

(***************************************************************************)
(* The inputs the model draws from.                                        *)
(***************************************************************************)
T_ab == <<"a", "b">>
T_Ab == <<"A", "b">>
T_AB == <<"A", "B">>
T_c == <<"c">>
T_d == <<"d">>
T_a_b == <<"a", "/", "b">>

Id(n) == Str(n)

\* the albums of albums.json in title order; the cover of the second album
\* has no image
Album(id, title, cover, photos) ==
    [id |-> id, title |-> title, cover_photo |-> <<"p", "/">> \o cover,
     photos |-> photos, photo_count |-> Len(photos)]

AllAlbums ==
    << Album(<<"7", "1">>, <<"k">>, Id(1), <<Id(1)>>),
       Album(<<"7", "2">>, <<"l">>, Id(9), <<Id(1), Id(2)>>),
       Album(<<"7", "3">>, <<"m">>, Id(2), <<>>) >>

Min(a, b) == IF a < b THEN a ELSE b

\* an album of one photo more than the stacked layout takes: photos 1 and 2
\* in turn
BigAlbum ==
    Album(<<"7", "0">>, <<"j">>, Id(1),
          [i \in 1..(PhotoTableOver + 1) |-> IF i % 2 = 1 THEN Id(1) ELSE Id(2)])

AlbumLists ==
    {SubSeq(AllAlbums, 1, n) : n \in 0..Min(MaxAlbums, Len(AllAlbums))}
        \cup {<<BigAlbum>>}

\* the image directory of a run: photos 1 and 2 have an image, photo 3 has none
RunImages == << <<"1", "_", "a", ".", "j">>, <<"a", "_", "2", ".", "j">> >>

RunListings == {SubSeq(RunImages, 1, n) : n \in 0..Min(MaxFiles, Len(RunImages))}

R1 == Record(Id(1), <<T_Ab, T_d>>, StrCount(5), StrCount(7), StrCount(0))
R2 == Record(Id(2), <<T_ab, T_c>>, StrCount(10), StrCount(7), StrCount(0))
R3 == Record(Id(3), <<T_AB>>, IntCount(5), StrCount(1), StrCount(0))
\* a photo without image that shares its tag and its counts with photo 1
R4 == Record(Id(3), <<T_ab>>, StrCount(5), StrCount(7), StrCount(0))
\* a photo whose tag has a slash in its name
R5 == Record(Id(2), <<T_a_b>>, StrCount(5), StrCount(7), StrCount(0))

RunRecords ==
    {R1, R2, R3, R4, R5, Unparseable(Id(2)), Drop(R2, "geo"), Drop(R2, "tags"),
     Drop(R2, "id"), Drop(R2, "count_views"), Drop(R2, "license")}

OneFileEach(s) == \A i, j \in DOMAIN s : s[i].file = s[j].file => i = j

RunJsonFiles == {s \in DistinctSeqs(RunRecords, MaxRecords) : OneFileEach(s)}

\* the html tree a run starts from: empty, or the photo page of photo 1 and
\* the first tag index page left by an earlier run
OldImagePage == [kind |-> "image", id |-> Id(1), image_src |-> None, tags |-> <<>>]

OldTagsPage == [kind |-> "tags-index", page_num |-> 1, pages |-> <<>>, entries |-> <<>>]

OldTrees ==
    {EmptyDict,
     DictSet(DictSet(EmptyDict, ImagePath(Id(1)), OldImagePage),
             TagsIndexPath(1), OldTagsPage)}

\* records rich in tags, and records rich in counts, for the index builder
TagSeqs ==
    {<<>>, <<T_ab>>, <<T_Ab>>, <<T_AB>>, <<T_ab, T_ab>>, <<T_Ab, T_AB>>,
     <<T_c, T_ab>>, <<T_ab, T_d>>}

CountPairs ==
    {<<StrCount(5), StrCount(7)>>, <<IntCount(5), StrCount(7)>>,
     <<StrCount(10), StrCount(7)>>, <<StrCount(0), IntCount(7)>>}

TagRecords(n) ==
    {[i \in 1..n |-> Record(Id(i), ts[i], StrCount(0), StrCount(0), StrCount(0))] :
        ts \in [1..n -> TagSeqs]}

CountRecords(n) ==
    {[i \in 1..n |-> Record(Id(i), <<>>, cs[i][1], cs[i][2], StrCount(0))] :
        cs \in [1..n -> CountPairs]}

IndexJsonFiles == UNION {TagRecords(n) \cup CountRecords(n) : n \in 0..MaxRecords}

(***************************************************************************)
(* The specifications.                                                     *)
(***************************************************************************)
InitWith(listings, albumlists, trees, filelists, at) ==
    /\ pc = at
    /\ listing \in listings
    /\ map_i = 0
    /\ image_map = EmptyDict
    /\ map_cache = (at # "map")
    /\ albums \in albumlists
    /\ json_files \in filelists
    /\ rec_i = 0
    /\ tags = EmptyDict
    /\ favs = EmptyDict
    /\ views = EmptyDict
    /\ comments = EmptyDict
    /\ cache = EmptyDict
    /\ fs \in trees
    /\ writes = <<>>
    /\ log = <<>>
    /\ loop = NoLoop

\* a run of run()
Init == InitWith(RunListings, AlbumLists, OldTrees, RunJsonFiles, "map")

Next ==
    \/ MapStep \/ MapReturn
    \/ AlbumsBegin \/ AlbumsPage \/ AlbumsReturn
    \/ ImagesStep \/ ImagesReturn
    \/ RunCombineTags \/ RunSortTags \/ RunSortCounts
    \/ TagsBegin \/ TagsStep \/ TagsReturn
    \/ FavsBegin \/ FavsStep \/ FavsReturn
    \/ ViewsBegin \/ ViewsStep \/ ViewsReturn
    \/ CommentsBegin \/ CommentsStep \/ CommentsReturn

Spec == Init /\ [][Next]_vars

\* _create_image_map over the listings of an image directory
InitMap == InitWith(Listings, {<<>>}, {EmptyDict}, {<<>>}, "map")

NextMap == MapStep \/ MapReturn

SpecMap == InitMap /\ [][NextMap]_vars

\* the index builder: _create_images_html and the fold and sorts of run(), in
\* a run with an empty image directory and no album
InitIndex == InitWith({<<>>}, {<<>>}, {EmptyDict}, IndexJsonFiles, "images")

NextIndex == ImagesStep \/ ImagesReturn \/ RunCombineTags \/ RunSortTags \/ RunSortCounts

SpecIndex == InitIndex /\ [][NextIndex]_vars

(***************************************************************************)
(* The image locator (SpecMap).                                            *)
(***************************************************************************)
\* the ids the three patterns find in a file name
Implied(f) == {RegexA(f), RegexB(f), RegexC(f)} \ {None}

\* the id of the first of the three patterns that matches, or None
FirstMatch(f) ==
    IF RegexA(f) # None THEN RegexA(f)
    ELSE IF RegexB(f) # None THEN RegexB(f) ELSE RegexC(f)

\* the ids a step of the loop set or changed
Touched(old, new) ==
    {id \in DOMAIN new : id \notin DOMAIN old \/ new[id] # old[id]}

\* C8: in _create_image_map the first pattern that matches wins: a file name
\* adds or changes no entry of the map but the one of the id of the first
\* pattern that matches it, so it adds at most one photo-id.
C8_FirstPatternWins ==
    [][(pc = "map" /\ map_i < Len(listing))
         => Touched(image_map, image_map') \subseteq {FirstMatch(listing[map_i + 1])}]_vars

\* the last of the first n files of the listing that implies id
LastImplying(id, n) ==
    LET at == {i \in 1..n : id \in Implied(listing[i])}
    IN  listing[CHOOSE i \in at : \A j \in at : j <= i]

\* C9: when two file names imply the same photo-id, the map holds for the id
\* the file name that comes later in the listing, and the ids of the map are
\* the ids the files processed so far imply, each with one file name.
C9_LastWriteWins ==
    /\ DOMAIN image_map = UNION {Implied(listing[i]) : i \in 1..map_i}
    /\ \A id \in DOMAIN image_map : image_map[id] = LastImplying(id, map_i)

\* two files that imply the same id have both been processed
C9_Witness ==
    /\ pc = "albums_begin"
    /\ \E i, j \in 1..map_i :
          /\ i < j
          /\ Implied(listing[i]) \cap Implied(listing[j]) # {}
          /\ \E id \in Implied(listing[i]) \cap Implied(listing[j]) :
                image_map[id] = listing[j]

(***************************************************************************)
(* The index builder (SpecIndex).                                          *)
(***************************************************************************)
\* the tag index as _create_images_html returned it: run() folds it right
\* after ./cache/tags.json was written from it
RawTags == cache["tags.json"]

\* the keys of the raw index whose lowercase form is k
Variants(k) == {t \in DOMAIN RawTags : Lower(t) = k}

\* C2: after _combine_tags every key of the tag index is lowercase, no two
\* keys are equal ignoring case, and the photo-ids under a key are the union
\* of the photo-ids of the input keys whose lowercase form is that key.
C2_FoldIsUnion ==
    pc = "sort_tags" =>
        /\ \A k \in DOMAIN tags : Lower(k) = k
        /\ \A k1, k2 \in DOMAIN tags : Lower(k1) = Lower(k2) => k1 = k2
        /\ DOMAIN tags = {Lower(t) : t \in DOMAIN RawTags}
        /\ \A k \in DOMAIN tags :
              Range(tags[k]) = UNION {Range(RawTags[t]) : t \in Variants(k)}

\* three case variants of one tag, with different photos, have been folded
C2_Witness ==
    /\ pc = "sort_tags"
    /\ \E k \in DOMAIN tags :
          /\ Cardinality(Variants(k)) = 3
          /\ \E t1, t2 \in Variants(k) : Range(RawTags[t1]) # Range(RawTags[t2])
          /\ Cardinality(Range(tags[k])) >= 2

NoDuplicate(s) == \A i, j \in DOMAIN s : s[i] = s[j] => i = j

\* C3: after the tag fold the photo-id list of every tag key holds each
\* photo-id at most once.
C3_FoldedListsAreSets ==
    pc = "sort_tags" => \A k \in DOMAIN tags : NoDuplicate(tags[k])

Keys(items) == [i \in DOMAIN items |-> items[i].k]

StrictlyDescending(s) == \A i, j \in DOMAIN s : i < j => s[i] > s[j]

\* C4: the favorites, views and comments indexes handed to the paginator are
\* in strictly descending order of their integer key.
C4_CountsDescending ==
    pc = "tags_begin" =>
        /\ StrictlyDescending(Keys(favs))
        /\ StrictlyDescending(Keys(views))
        /\ StrictlyDescending(Keys(comments))

\* the favorite counts "10" and "5" are in the order 10, 5, and the two
\* photos share one view count
C4_Witness ==
    /\ pc = "tags_begin"
    /\ Keys(favs) = <<10, 5>>
    /\ Len(views) = 1
    /\ Len(views[1].v) = 2

\* C5: the tag index handed to the paginator is in descending order of group
\* size, and every tag of the folded index is in it exactly once, with its
\* photo-id list, in the size group of the length of that list.
C5_TagsBySizeDescending ==
    [][pc = "sort_tags" =>
         LET flat == FlatTags(tags')
         IN  /\ \A i, j \in DOMAIN flat :
                   i < j => Len(flat[i].images) >= Len(flat[j].images)
             /\ Len(flat) = Cardinality(DOMAIN tags)
             /\ \A k \in DOMAIN tags :
                   \E i \in DOMAIN flat : flat[i].name = k /\ flat[i].images = tags[k]
             /\ StrictlyDescending(Keys(tags'))
             /\ \A g \in DOMAIN tags' :
                   \A i \in DOMAIN tags'[g].v : Len(tags'[g].v[i].images) = tags'[g].k]_vars

\* tags of two sizes, two of them of one size, have been sorted
C5_Witness ==
    /\ pc = "sort_counts"
    /\ Len(tags) = 2
    /\ \E g \in DOMAIN tags : Len(tags[g].v) = 2

(***************************************************************************)
(* The run (Spec): error handling and pagination.                          *)
(***************************************************************************)
IndexPageDirs ==
    {"html/tags-", "html/tags/", "html/favs-", "html/favs/", "html/views-",
     "html/views/", "html/comments-", "html/comments/"}

\* no tag page, tag index page, count page or leaderboard page was written
NoIndexPageWritten == \A i \in DOMAIN writes : writes[i][1] \notin IndexPageDirs

\* the run has stopped and nothing of it follows the loop over the records
StoppedInLoop ==
    /\ pc = "aborted"
    /\ cache = EmptyDict
    /\ NoIndexPageWritten

\* the fields of a record that the loop or the photo page subscripts
LacksField(rec) == (PageFields \cup IndexFields) \ DOMAIN rec.data # {}

\* C6: a record that parses but lacks an expected field is skipped without
\* aborting: the run goes on with the remaining records.
C6_MissingFieldIsSkipped ==
    \A i \in 1..rec_i :
        (json_files[i].parses /\ LacksField(json_files[i])) => pc # "aborted"

\* C7: a record that cannot be parsed aborts the run: no later record is
\* processed, no cache file and no tag or leaderboard page is written.
C7_UnparseableAborts ==
    \A i \in 1..rec_i :
        ~json_files[i].parses => (rec_i = i /\ StoppedInLoop)

\* the run stopped at an unparseable record, with a record left unread
C7_Witness ==
    /\ pc = "aborted"
    /\ rec_i >= 1
    /\ rec_i < Len(json_files)
    /\ ~json_files[rec_i].parses

\* the run ended by the exception of the index named
CrashedIn(where) ==
    /\ pc = "aborted"
    /\ Len(log) > 0
    /\ log[Len(log)].msg = "Something unexpected happened"
    /\ log[Len(log)].what = where

\* C10: a cover-photo lookup miss for an album or for a tag does not abort
\* the run.
C10_CoverMissIsNotFatal == ~CrashedIn("tag")

\* the index pages of a directory that the run wrote, in the order written
PagesWritten(dir) == LET In(path) == path[1] = dir IN SelectSeq(writes, In)

RECURSIVE Concat(_)
Concat(ss) == IF ss = <<>> THEN <<>> ELSE Head(ss) \o Concat(Tail(ss))

\* the pages written for a sorted index, N entries a page: ceil(L/N) pages
\* numbered from 1, full but for the last, holding the keys of the index in
\* its order (Key gives the key of an entry of a page)
Paginated(dir, keys, N, Key(_)) ==
    LET pages == PagesWritten(dir)
    IN  /\ Len(pages) = CeilDiv(Len(keys), N)
        /\ \A n \in DOMAIN pages : pages[n] = <<dir, Str(n)>>
        /\ \A n \in DOMAIN pages : n < Len(pages) => Len(fs[pages[n]].entries) = N
        /\ Concat([n \in DOMAIN pages |->
                     [e \in DOMAIN fs[pages[n]].entries |-> Key(fs[pages[n]].entries[e])]])
             = keys

\* the positions of the program after _create_types_html(type, ...) returned
PcAfter(type) ==
    CASE type = "tag" ->
           {"fav_begin", "fav", "view_begin", "view", "comment_begin", "comment", "done"}
      [] type = "fav" -> {"view_begin", "view", "comment_begin", "comment", "done"}
      [] type = "view" -> {"comment_begin", "comment", "done"}
      [] type = "comment" -> {"done"}

\* the writing of the pages of an index is over, by return or by exception
Over(type) ==
    \/ pc \in PcAfter(type)
    \/ CrashedIn(type)
    \/ \E later \in Types : CrashedIn(later) /\ pc \notin PcAfter(later) /\ later # type
          /\ PcAfter(later) \subseteq PcAfter(type)

TagPagesCoverIndex ==
    LET flat == FlatTags(tags)
        Key(e) == e.tag_clean
    IN  Paginated("html/tags-", [i \in DOMAIN flat |-> flat[i].name], tags_per_page, Key)

TypePagesCoverIndex(type) ==
    LET Key(e) == e.num
    IN  Paginated("html/" \o type \o "s-", Keys(TypeIndex(type)), types_per_page, Key)

AlbumPagesCoverIndex ==
    LET Key(e) == e.id
    IN  Paginated("html/albums-", [i \in DOMAIN albums |-> albums[i].id],
                  albums_per_page, Key)

\* C1: for each sorted index, once its pages are written, the index pages
\* number ceil(L/N), are numbered 1..ceil(L/N), are full but for the last,
\* and hold the entries of the index in its order.
C1_PagesCoverIndex ==
    /\ pc \notin {"map", "albums_begin", "albums"} => AlbumPagesCoverIndex
    /\ Over("tag") => TagPagesCoverIndex
    /\ \A type \in Types : Over(type) => TypePagesCoverIndex(type)

(***************************************************************************)
(* The run (Spec): missing images.                                         *)
(***************************************************************************)
\* the photo-ids of the sorted tag index and of the sorted count indexes
IndexedIds ==
    UNION ({Range(FlatTags(tags)[i].images) : i \in DOMAIN FlatTags(tags)}
           \cup UNION {{Range(TypeIndex(type)[g].v) : g \in DOMAIN TypeIndex(type)} :
                         type \in Types})

\* the number of times the run logged id as not found in the image map
Reports(id) ==
    LET Is(e) == e.msg = "not in image map" /\ e.what = id
    IN  Len(SelectSeq(log, Is))

\* C11: at the end of a run every photo-id of the tag, favorite, view and
\* comment indexes has an entry in the image map or was reported as missing
\* exactly once.
C11_MissingAssetReportedOnce ==
    pc = "done" => \A id \in IndexedIds : id \in DOMAIN image_map \/ Reports(id) = 1

(***************************************************************************)
(* The run (Spec): the navigation bar of the index pages.                  *)
(***************************************************************************)
\* the page numbers 1..ceil(L/N)
AllPages(L, N) == [x \in 1..CeilDiv(L, N) |-> x]

\* the navigation bar of every tag index page written links to the pages
\* 1..ceil(L/N) of the tag index
TagsNavIsComplete ==
    \A n \in DOMAIN PagesWritten("html/tags-") :
        fs[PagesWritten("html/tags-")[n]].pages
            = AllPages(Len(FlatTags(tags)), tags_per_page)

\* the same for the index pages of a leaderboard
TypesNavIsComplete(type) ==
    \A n \in DOMAIN PagesWritten("html/" \o type \o "s-") :
        fs[PagesWritten("html/" \o type \o "s-")[n]].pages
            = AllPages(Len(TypeIndex(type)), types_per_page)

\* C12: the navigation bar of every tag index page and of every leaderboard
\* index page links to each page 1..ceil(L/N) of its family, the last page
\* included, and to no other page.
C12_NavLinksEveryPage ==
    /\ TagsNavIsComplete
    /\ \A type \in Types : TypesNavIsComplete(type)

(***************************************************************************)
(* The run (Spec): _write_html.                                            *)
(***************************************************************************)
\* the loop of _create_images_html is at a record whose photo page it goes
\* on to pass to _write_html, with overwrite disabled
AtPhotoWrite ==
    /\ pc = "images"
    /\ rec_i < Len(json_files)
    /\ json_files[rec_i + 1].parses
    /\ ~LacksField(json_files[rec_i + 1])

C14_FoldIsIdempotent ==
    pc = "sort_tags" =>
        \A order \in Perms(DOMAIN tags), ids \in Perms(IdsOf(tags)) :
            _combine_tags(tags, order, ids) = tags

\* the folded index has a key merged from two case variants, with two
\* photos, and another key
C14_Witness ==
    /\ pc = "sort_tags"
    /\ Cardinality(DOMAIN tags) >= 2
    /\ \E k \in DOMAIN tags :
          /\ Cardinality(Variants(k)) >= 2
          /\ Cardinality(Range(tags[k])) = 2

(***************************************************************************)
(* The run (Spec): the layout of the photos of a page.                     *)
(***************************************************************************)
\* a grid of rows of at most 5 cells, each row opened and closed
RECURSIVE GridRows(_)
GridRows(cells) ==
    IF cells = <<>> THEN <<>>
    ELSE LET n == Min(5, Len(cells))
         IN  <<Tok("tr")>> \o SubSeq(cells, 1, n) \o <<Tok("/tr")>>
                 \o GridRows(SubSeq(cells, n + 1, Len(cells)))

\* the grid table of the photos that have an image
Grid(ids, map) ==
    LET Has(id) == id \in DOMAIN map
        shown == SelectSeq(ids, Has)
    IN  <<Tok("table")>>
            \o GridRows([i \in DOMAIN shown |->
                           [tok |-> "td", id |-> shown[i], url |-> map[shown[i]]]])
            \o <<Tok("/table")>>

\* the layout of a page written for a list of photos
LayoutOk(page, ids) ==
    IF Len(ids) > 30
    THEN page.images.layout = "table" /\ page.images.body = Grid(ids, image_map)
    ELSE page.images.layout = "stacked"

\* C15: a tag, album or count page of more than 30 photos shows them in a
\* table of rows of 5 cells, each row opened and closed, the last row
\* possibly shorter; a page of 30 photos or fewer stacks them.
C15_GridOfFiveColumns ==
    /\ \A i \in DOMAIN albums :
          AlbumPath(albums[i].id) \in Range(writes) =>
              LayoutOk(fs[AlbumPath(albums[i].id)], albums[i].photos)
    /\ pc \in PcAfter("tag") =>
          \A i \in DOMAIN FlatTags(tags) :
              LayoutOk(fs[TagPath(FlatTags(tags)[i].name)], FlatTags(tags)[i].images)

(***************************************************************************)
(* The index builder (SpecIndex): the keys of the count indexes.           *)
(***************************************************************************)
\* the groups of a sorted count index that list the photo-id
GroupsOf(index, id) == {g \in DOMAIN index : id \in Range(index[g].v)}

\* the photo-id of the record is under the integer value of its count, and
\* under no other key
UnderItsCount(index, rec, fld) ==
    /\ Cardinality(GroupsOf(index, rec.data["id"])) = 1
    /\ \A g \in GroupsOf(index, rec.data["id"]) : index[g].k = KeyInt(rec.data[fld])

\* C16: in the favorite, view and comment indexes that reach the paginator
\* the photo-id of every loaded record is under exactly one key, the integer
\* value of the count of the record.
C16_KeyToIntLosesNoPhoto ==
    pc = "tags_begin" =>
        \A i \in DOMAIN json_files :
            /\ UnderItsCount(favs, json_files[i], "count_faves")
            /\ UnderItsCount(views, json_files[i], "count_views")
            /\ UnderItsCount(comments, json_files[i], "count_comments")

(***************************************************************************)
(* The run (Spec): the order of the phases.                                *)
(***************************************************************************)
TagDirs == {"html/tags-", "html/tags/"}

TypeDirs(type) == {"html/" \o type \o "s-", "html/" \o type \o "s/"}

\* a page of one of the directories is among the paths written
Written(dirs, w) == \E i \in DOMAIN w : w[i][1] \in dirs

CacheFile(type) ==
    CASE type = "fav" -> "favs.json" [] type = "view" -> "views.json"
      [] type = "comment" -> "comments.json"

\* every record was read, parsed and added to the count indexes
AllLoaded ==
    /\ rec_i = Len(json_files)
    /\ \A i \in DOMAIN json_files :
          /\ json_files[i].parses
          /\ ~LacksField(json_files[i])
          /\ json_files[i].data["id"] \in IdsOf(favs) \cap IdsOf(views) \cap IdsOf(comments)

\* the tag index is the cached tag index, folded and sorted: its tags are
\* the lowercase forms of the cached keys, each once, with the photos of its
\* case variants, in groups of equal size, the larger group first
TagsFoldedAndSorted ==
    LET flat == FlatTags(tags)
    IN  /\ {flat[i].name : i \in DOMAIN flat} = {Lower(t) : t \in DOMAIN RawTags}
        /\ \A i, j \in DOMAIN flat : flat[i].name = flat[j].name => i = j
        /\ \A i \in DOMAIN flat :
              Range(flat[i].images)
                  = UNION {Range(RawTags[t]) : t \in Variants(flat[i].name)}
        /\ StrictlyDescending(Keys(tags))
        /\ \A g \in DOMAIN tags :
              \A i \in DOMAIN tags[g].v : Len(tags[g].v[i].images) = tags[g].k

\* the count index is the cached count index, keyed by integer and sorted
TypeSorted(type) ==
    \E order \in Perms(DOMAIN cache[CacheFile(type)]) :
        TypeIndex(type) = SortedByKeyDesc(_key_to_int(cache[CacheFile(type)], order))

\* C17: the phases of a run happen in sequence: the cache files are written
\* once every record is loaded and indexed and before any index page; an
\* index is folded and sorted after that and before its first page is
\* written, and does not change once a page of it is written.
C17_PhasesInSequence ==
    [][/\ cache' # cache =>
            /\ AllLoaded
            /\ NoIndexPageWritten
            /\ cache'["tags.json"] = tags /\ cache'["favs.json"] = favs
            /\ cache'["views.json"] = views /\ cache'["comments.json"] = comments
       /\ pc \in {"combine", "sort_tags"} =>
            cache # EmptyDict /\ ~Written(TagDirs, writes')
       /\ Written(TagDirs, writes') => tags' = tags /\ TagsFoldedAndSorted
       /\ \A type \in Types :
            /\ pc = "sort_counts" =>
                  cache # EmptyDict /\ ~Written(TypeDirs(type), writes')
            /\ Written(TypeDirs(type), writes') =>
                  TypeIndex(type)' = TypeIndex(type) /\ TypeSorted(type)]_vars

\* a run over two records has written pages of the four indexes
C17_Witness ==
    /\ pc = "done"
    /\ Len(json_files) = 2
    /\ Written(TagDirs, writes)
    /\ \A type \in Types : Written(TypeDirs(type), writes)

(***************************************************************************)
(* The run (Spec): the back-link of a tag page and of a count page.        *)
(***************************************************************************)
\* the page number in the back-link of a detail page is the number of the
\* index page of the directory that lists the entry, and the number of a
\* page that was written (Key gives the key of an entry of an index page)
BackLinkOk(detail, key, dir, Key(_)) ==
    LET pages == PagesWritten(dir)
    IN  /\ detail.page_num <= Len(pages)
        /\ \A n \in DOMAIN pages :
              (\E e \in DOMAIN fs[pages[n]].entries : Key(fs[pages[n]].entries[e]) = key)
                  => detail.page_num = fs[pages[n]].page_num

TagBackLinksOk ==
    LET Key(e) == e.tag_clean
    IN  \A i \in DOMAIN FlatTags(tags) :
            BackLinkOk(fs[TagPath(FlatTags(tags)[i].name)], FlatTags(tags)[i].name,
                       "html/tags-", Key)

TypeBackLinksOk(type) ==
    LET Key(e) == e.num
    IN  \A g \in DOMAIN TypeIndex(type) :
            BackLinkOk(fs[TypePath(type, TypeIndex(type)[g].k)], TypeIndex(type)[g].k,
                       "html/" \o type \o "s-", Key)

\* C18: once the pages of an index are written, the back-link of every tag
\* page and of every count page names the index page that lists the tag or
\* the count, and no page beyond the index pages written.
C18_BackLinkIsOwnIndexPage ==
    /\ pc \in PcAfter("tag") => TagBackLinksOk
    /\ \A type \in Types : pc \in PcAfter(type) => TypeBackLinksOk(type)

(***************************************************************************)
(* The run (Spec): the indexes of a run over photo pages that exist.       *)
(***************************************************************************)
\* the number of times x is in the list
Occurrences(list, x) == Cardinality({i \in DOMAIN list : list[i] = x})

\* the record is in the four indexes: under each of its tags as often as it
\* names the tag, and once under each of its three counts
Indexed(rec) ==
    LET data == rec.data
    IN  /\ \A t \in Range(data["tags"]) :
              /\ t \in DOMAIN tags
              /\ Occurrences(tags[t], data["id"]) = Occurrences(data["tags"], t)
        /\ data["count_faves"] \in DOMAIN favs
        /\ Occurrences(favs[data["count_faves"]], data["id"]) = 1
        /\ data["count_views"] \in DOMAIN views
        /\ Occurrences(views[data["count_views"]], data["id"]) = 1
        /\ data["count_comments"] \in DOMAIN comments
        /\ Occurrences(comments[data["count_comments"]], data["id"]) = 1

\* C19: every record the loop of _create_images_html has processed is in the
\* tag, favorite, view and comment indexes, whether its photo page was
\* written or was there already and skipped.
C19_SkippedPageIsStillIndexed ==
    pc \in {"images", "combine"} => \A i \in 1..rec_i : Indexed(json_files[i])

\* the photo page of photo 1 was there, was not written again, and the
\* indexes of the run were returned
C19_Witness ==
    /\ pc = "combine"
    /\ \E i \in 1..rec_i : json_files[i] = R1
    /\ fs[ImagePath(Id(1))] = OldImagePage
    /\ ImagePath(Id(1)) \notin Range(writes)
    /\ Len(json_files) = 2

(***************************************************************************)
(* The run (Spec): the links to the tag pages.                             *)
(***************************************************************************)
\* the tag pages the run wrote
TagPagesWritten == {writes[i] : i \in {j \in DOMAIN writes : writes[j][1] = "html/tags/"}}

\* the photo pages the run wrote
PhotoPagesWritten ==
    {writes[i] : i \in {j \in DOMAIN writes : writes[j][1] = "html/images/"}}

\* C20: once the tag pages are written, the file name of the page of every
\* tag is the link target of the tag, and every tag link of a tag index page
\* and, after lowercasing, of a photo page points at a tag page that was
\* written.
C20_TagLinkIsTagFile ==
    pc \in PcAfter("tag") =>
        /\ \A i \in DOMAIN FlatTags(tags) :
              TagPath(FlatTags(tags)[i].name)[2] = TagLink(FlatTags(tags)[i].name)
        /\ \A n \in DOMAIN PagesWritten("html/tags-") :
              \A e \in DOMAIN fs[PagesWritten("html/tags-")[n]].entries :
                  <<"html/tags/", fs[PagesWritten("html/tags-")[n]].entries[e].tag>>
                      \in TagPagesWritten
        /\ \A p \in PhotoPagesWritten :
              \A l \in DOMAIN fs[p].tags :
                  <<"html/tags/", Lower(fs[p].tags[l])>> \in TagPagesWritten

====
